---------------------------- MODULE Spec2Model ----------------------------
(***************************************************************************)
(* Model of the electricity-usage page (src/main.js): timestamp            *)
(* resolution in America/Los_Angeles, merge of overlapping CSV exports,    *)
(* gap filling, hourly/daily aggregation, range filtering and the rolling  *)
(* average, together with the load / clear / startup handlers that         *)
(* rebuild the in-memory store from the persisted records, two loads in    *)
(* flight at once, and the date inputs.                                    *)
(*                                                                         *)
(* Conventions of the model:                                               *)
(*   - an instant is an integer number of MINUTES since the Unix epoch     *)
(*     (every quantity of the program is a whole number of minutes:        *)
(*     FIFTEEN_MINUTES = 15, 86_400_000 ms = 1440, tzOffset is minutes);   *)
(*   - a date string "YYYY-MM-DD" is the tuple <<y, m, d>> and a time      *)
(*     string "HH:MM" the tuple <<h, mi>>; tuples compare as the strings   *)
(*     do;                                                                 *)
(*   - importKWh is an exact number (a natural): floating-point rounding   *)
(*     of sums is not modelled;                                            *)
(*   - Intl.DateTimeFormat is modelled by the proleptic Gregorian          *)
(*     calendar and the US daylight-saving rule in force for               *)
(*     America/Los_Angeles (second Sunday of March 10:00 UTC to first      *)
(*     Sunday of November 09:00 UTC), hour cycle h23.                      *)
(***************************************************************************)
EXTENDS Integers, Sequences, FiniteSets, TLC

(***************************************************************************)
(* Program constants                                                       *)
(***************************************************************************)
FIFTEEN_MINUTES == 15

ROLLING_WINDOW == 10

DAY_MINUTES == 1440

(***************************************************************************)
(* Calendar: what Date.UTC and Intl.DateTimeFormat compute                 *)
(***************************************************************************)
\* Every definition below hands its intermediate values on as parameters, so
\* that each is computed once.

\* Days since 1970-01-01 of the civil date y-m-d (m in 1..12), the year
\* starting in March: era is the 400-year cycle, yoe the year of the era,
\* doy the day of the year.
DaysFromYoe(era, yoe, doy) ==
    era * 146097 + (yoe * 365 + yoe \div 4 - yoe \div 100 + doy) - 719468

DaysFromMarchYear(yy, m, d) ==
    DaysFromYoe(yy \div 400, yy % 400, (153 * ((m + 9) % 12) + 2) \div 5 + d - 1)

DaysFromCivil(y, m, d) ==
    DaysFromMarchYear(IF m <= 2 THEN y - 1 ELSE y, m, d)

\* The civil date <<y, m, d>> of a day number: the inverse of DaysFromCivil.
CivilFromMonth(y, doy, mp) ==
    << IF mp < 10 THEN y ELSE y + 1,
       IF mp < 10 THEN mp + 3 ELSE mp - 9,
       doy - (153 * mp + 2) \div 5 + 1 >>

CivilFromDoy(y, doy) == CivilFromMonth(y, doy, (5 * doy + 2) \div 153)

CivilFromYoe(era, doe, yoe) ==
    CivilFromDoy(yoe + era * 400, doe - (365 * yoe + yoe \div 4 - yoe \div 100))

CivilFromDoe(era, doe) ==
    CivilFromYoe(era, doe,
                 (doe - doe \div 1460 + doe \div 36524 - doe \div 146096) \div 365)

CivilFromDays(z) ==
    CivilFromDoe((z + 719468) \div 146097, (z + 719468) % 146097)

\* Date.UTC(year, monthIndex, day, hour, minute): monthIndex is 0-based and
\* every field past its range carries into the next one.
DateUTC(year, monthIndex, day, hour, minute) ==
    ( DaysFromCivil(year + monthIndex \div 12, (monthIndex % 12) + 1, 1)
      + day - 1 ) * DAY_MINUTES + hour * 60 + minute

\* 0 = Sunday.
Weekday(days) == (days + 4) % 7

SundayOnOrAfter(days) == days + ((7 - Weekday(days)) % 7)

\* Day number of the n-th Sunday of month m of year y.
NthSunday(y, m, n) == SundayOnOrAfter(DaysFromCivil(y, m, 1)) + 7 * (n - 1)

\* Daylight time runs from the second Sunday of March, 02:00 standard time
\* (10:00 UTC), to the first Sunday of November, 02:00 daylight time
\* (09:00 UTC).
IsDaylightTime(t, y) ==
    /\ t >= NthSunday(y, 3, 2) * DAY_MINUTES + 10 * 60
    /\ t <  NthSunday(y, 11, 1) * DAY_MINUTES + 9 * 60

\* The zone's UTC offset in minutes at instant t.
ZoneOffset(t) ==
    IF IsDaylightTime(t, CivilFromDays(t \div DAY_MINUTES)[1]) THEN -420 ELSE -480

PartsOf(civil, mins) ==
    [year |-> civil[1], month |-> civil[2], day |-> civil[3],
     hour |-> mins \div 60, minute |-> mins % 60]

PartsOfLocal(local) ==
    PartsOf(CivilFromDays(local \div DAY_MINUTES), local % DAY_MINUTES)

\* dtf.formatToParts(date): the wall-clock fields of instant t in the zone.
FormatToParts(t) == PartsOfLocal(t + ZoneOffset(t))

\* Date.UTC of the wall-clock fields.
ZonedTime(values) ==
    DateUTC(values.year, values.month - 1, values.day, values.hour, values.minute)

tzOffset(t) == ZonedTime(FormatToParts(t)) - t

\* base is the wall-clock time read as if it were UTC; the offset subtracted
\* is the zone's offset at base.
ResolveBase(base) == base - tzOffset(base)

zonedDateTimeToDate(dateStr, timeStr) ==
    ResolveBase(DateUTC(dateStr[1], dateStr[2] - 1, dateStr[3],
                        timeStr[1], timeStr[2]))

DateOfParts(p) == << p.year, p.month, p.day >>

TimeOfParts(p) == << p.hour, p.minute >>

formatDateInZone(t) == DateOfParts(FormatToParts(t))

formatTimeInZone(t) == TimeOfParts(FormatToParts(t))

(***************************************************************************)
(* Sequences, Array.prototype.sort and the JavaScript Map                  *)
(***************************************************************************)
NoValue == <<>>   \* "", null or undefined: every falsy string of the program

\* records.sort((a, b) => a.timestamp - b.timestamp): a stable sort. The
\* element at index i goes after every element of a smaller timestamp and
\* after the earlier elements of the same timestamp.
SortByTimestamp(records) ==
    LET n == Len(records)
        Position(i) ==
            Cardinality({ j \in 1..n :
                            \/ records[j].timestamp < records[i].timestamp
                            \/ /\ records[j].timestamp = records[i].timestamp
                               /\ j < i }) + 1
    IN  [p \in 1..n |-> records[CHOOSE i \in 1..n : Position(i) = p]]

\* A Map is the sequence of its entries in insertion order.
MapHas(map, key) == \E i \in 1..Len(map) : map[i].key = key

MapGet(map, key) ==
    map[CHOOSE i \in 1..Len(map) : map[i].key = key].value

\* map.set(key, value): overwrite in place, or append a new entry.
MapSet(map, key, value) ==
    IF MapHas(map, key)
    THEN [i \in 1..Len(map) |->
            IF map[i].key = key THEN [key |-> key, value |-> value] ELSE map[i]]
    ELSE Append(map, [key |-> key, value |-> value])

MapValues(map) == [i \in 1..Len(map) |-> map[i].value]

(***************************************************************************)
(* Row parser                                                              *)
(***************************************************************************)
\* A CSV file is [name, header, rows]: header says whether the text holds the
\* "TYPE,DATE,START TIME,END TIME,IMPORT (kWh)" line, and a row is
\* [date, startTime, importText], importText being <<n>> for the text of the
\* number n and <<>> for a missing or non-numeric field.
normalizeCsvThrows(file) == ~file.header

\* The callback of csvParse, as the sequence of the records it keeps: empty
\* for a row it answers null for.
ParseRow(row, source) ==
    IF row.date = NoValue \/ row.startTime = NoValue THEN <<>>
    ELSE << [timestamp |-> zonedDateTimeToDate(row.date, row.startTime),
             date      |-> row.date,
             startTime |-> row.startTime,
             importKWh |-> IF Len(row.importText) = 1
                           THEN row.importText[1] ELSE 0,
             source    |-> source,
             synthetic |-> FALSE] >>

RECURSIVE ParsedRows(_, _)
ParsedRows(rows, source) ==
    IF rows = <<>> THEN <<>>
    ELSE ParseRow(Head(rows), source) \o ParsedRows(Tail(rows), source)

parseUsageRows(rows, source) == SortByTimestamp(ParsedRows(rows, source))

(***************************************************************************)
(* Merger: the Map of loadUsageData                                        *)
(***************************************************************************)
\* A merge that keeps the record already in the Map: first input wins.
RECURSIVE SetEachKeepingFirst(_, _)
SetEachKeepingFirst(recordsByTimestamp, records) ==
    IF records = <<>> THEN recordsByTimestamp
    ELSE SetEachKeepingFirst(
             IF MapHas(recordsByTimestamp, Head(records).timestamp)
             THEN recordsByTimestamp
             ELSE MapSet(recordsByTimestamp, Head(records).timestamp, Head(records)),
             Tail(records))

RECURSIVE SetEach(_, _)
SetEach(recordsByTimestamp, records) ==
    IF records = <<>> THEN recordsByTimestamp
    ELSE SetEach(MapSet(recordsByTimestamp, Head(records).timestamp, Head(records)),
                 Tail(records))

RECURSIVE SetEachArray(_, _)
SetEachArray(recordsByTimestamp, arrays) ==
    IF arrays = <<>> THEN recordsByTimestamp
    ELSE SetEachArray(SetEach(recordsByTimestamp, Head(arrays)), Tail(arrays))

RECURSIVE Flattened(_)
Flattened(arrays) ==
    IF arrays = <<>> THEN <<>> ELSE Head(arrays) \o Flattened(Tail(arrays))

\* A merge whose Map is keyed by the Date objects, which are all distinct:
\* every record is kept.
MergeRecordsKeyedByReference(existingRecords, newRecordsArrays) ==
    SortByTimestamp(existingRecords \o Flattened(newRecordsArrays))

MergeRecords(existingRecords, newRecordsArrays) ==
    SortByTimestamp(MapValues(
        SetEachArray(SetEach(<<>>, existingRecords), newRecordsArrays)))

(***************************************************************************)
(* Gap filler                                                              *)
(***************************************************************************)
SyntheticRecord(expected) ==
    [timestamp |-> expected,
     date      |-> formatDateInZone(expected),
     startTime |-> formatTimeInZone(expected),
     importKWh |-> 0,
     source    |-> "synthetic-gap-fill",
     synthetic |-> TRUE]

\* The loop run while expected <= next.timestamp.
SyntheticRunInclusive(expected, nextTimestamp) ==
    LET steps == IF expected <= nextTimestamp
                 THEN (nextTimestamp - expected) \div FIFTEEN_MINUTES + 1
                 ELSE 0
    IN  [j \in 1..steps |-> SyntheticRecord(expected + (j - 1) * FIFTEEN_MINUTES)]

\* The while loop: it runs once for each expected, expected + 15, ... that
\* is < next.timestamp, and pushes one synthetic record each time.
SyntheticRun(expected, nextTimestamp) ==
    LET steps == IF expected < nextTimestamp
                 THEN (nextTimestamp - expected + FIFTEEN_MINUTES - 1)
                        \div FIFTEEN_MINUTES
                 ELSE 0
    IN  [j \in 1..steps |-> SyntheticRecord(expected + (j - 1) * FIFTEEN_MINUTES)]

\* A filler whose expected starts at current.timestamp itself.
RECURSIVE FillFromCurrent(_, _)
FillFromCurrent(records, i) ==
    IF i > Len(records) THEN <<>>
    ELSE << records[i] >>
         \o (IF i = Len(records) THEN <<>>
             ELSE [j \in 1..((records[i + 1].timestamp - records[i].timestamp
                              + FIFTEEN_MINUTES - 1) \div FIFTEEN_MINUTES) |->
                      SyntheticRecord(records[i].timestamp
                                      + (j - 1) * FIFTEEN_MINUTES)])
         \o FillFromCurrent(records, i + 1)

RECURSIVE FillFrom(_, _)
FillFrom(records, i) ==
    IF i > Len(records) THEN <<>>
    ELSE << records[i] >>
         \o (IF i = Len(records) THEN <<>>
             ELSE SyntheticRun(records[i].timestamp + FIFTEEN_MINUTES,
                               records[i + 1].timestamp))
         \o FillFrom(records, i + 1)

fillMissingIntervals(records) ==
    IF Len(records) = 0 THEN <<>> ELSE FillFrom(records, 1)

(***************************************************************************)
(* Aggregator                                                              *)
(***************************************************************************)
\* startTime.slice(0, 2): the hour digits of "HH:MM".
HourOf(startTime) == startTime[1]

BucketKey(record, granularity) ==
    IF granularity = "hourly" THEN << record.date, HourOf(record.startTime) >>
    ELSE << record.date >>

NewBucket(record, granularity) ==
    LET start == IF granularity = "hourly"
                 THEN << HourOf(record.startTime), 0 >> ELSE << 0, 0 >>
    IN  [timestamp   |-> zonedDateTimeToDate(record.date, start),
         date        |-> record.date,
         startTime   |-> start,
         importKWh   |-> 0,
         sampleCount |-> 0]

\* An iteration that assigns the record's import instead of adding it.
AddToBucketOverwriting(buckets, record, granularity) ==
    LET key     == BucketKey(record, granularity)
        present == IF MapHas(buckets, key) THEN buckets
                   ELSE MapSet(buckets, key, NewBucket(record, granularity))
        bucket  == MapGet(present, key)
    IN  MapSet(present, key,
               [bucket EXCEPT !.importKWh   = record.importKWh,
                              !.sampleCount = @ + 1])

\* One iteration of the for loop: create the bucket if absent, then add.
AddToBucket(buckets, record, granularity) ==
    LET key     == BucketKey(record, granularity)
        present == IF MapHas(buckets, key) THEN buckets
                   ELSE MapSet(buckets, key, NewBucket(record, granularity))
        bucket  == MapGet(present, key)
    IN  MapSet(present, key,
               [bucket EXCEPT !.importKWh   = @ + record.importKWh,
                              !.sampleCount = @ + 1])

\* The for loop over records[lo..hi], starting from the Map buckets: the
\* iterations run in index order. The range is split in two, and the Map of
\* the first half is computed before the second half starts, only to keep
\* the evaluation shallow.
RECURSIVE Bucketed(_, _, _, _, _)
Bucketed(buckets, records, lo, hi, granularity) ==
    IF lo > hi THEN buckets
    ELSE IF lo = hi THEN AddToBucket(buckets, records[lo], granularity)
    ELSE LET mid   == (lo + hi) \div 2
             first == Bucketed(buckets, records, lo, mid, granularity)
         IN  IF Len(first) > 0
             THEN Bucketed(first, records, mid + 1, hi, granularity)
             ELSE first

aggregate(records, granularity) ==
    IF granularity = "15min" THEN records
    ELSE SortByTimestamp(MapValues(
             Bucketed(<<>>, records, 1, Len(records), granularity)))

\* The dates pushed: the date of every record that differs from the date of
\* the record before it, in order.
listAvailableDates(records) ==
    LET pushed == { i \in 1..Len(records) :
                      i = 1 \/ records[i].date # records[i - 1].date }
    IN  [p \in 1..Cardinality(pushed) |->
           records[CHOOSE i \in pushed :
                     Cardinality({ j \in pushed : j <= i }) = p].date]

(***************************************************************************)
(* Range filter and rolling average                                        *)
(***************************************************************************)
filterByRange(records, startStr, endStr) ==
    IF Len(records) = 0 THEN records
    ELSE IF startStr = NoValue /\ endStr = NoValue THEN records
    ELSE LET Keep(record) ==
                 /\ (startStr # NoValue =>
                        record.timestamp >= zonedDateTimeToDate(startStr, << 0, 0 >>))
                 /\ (endStr # NoValue =>
                        record.timestamp <
                          zonedDateTimeToDate(endStr, << 0, 0 >>) + DAY_MINUTES)
         IN  SelectSeq(records, Keep)

\* A loop that drops the element leaving the window one iteration late.
RECURSIVE RollingFromLateTrim(_, _, _, _)
RollingFromLateTrim(records, windowSize, i, windowSum) ==
    IF i >= Len(records) THEN <<>>
    ELSE LET added   == windowSum + records[i + 1].importKWh
             trimmed == IF i > windowSize
                        THEN added - records[i - windowSize].importKWh
                        ELSE added
         IN  (IF i >= windowSize - 1
              THEN << [timestamp |-> records[i + 1].timestamp,
                       avg       |-> << trimmed, windowSize >>] >>
              ELSE <<>>)
             \o RollingFromLateTrim(records, windowSize, i + 1, trimmed)

\* avg is the exact quotient windowSum / windowSize, kept as <<num, den>>.
RECURSIVE RollingFrom(_, _, _, _)
RollingFrom(records, windowSize, i, windowSum) ==
    \* i is the 0-based loop index, windowSum the sum before this iteration.
    IF i >= Len(records) THEN <<>>
    ELSE LET added   == windowSum + records[i + 1].importKWh
             trimmed == IF i >= windowSize
                        THEN added - records[i - windowSize + 1].importKWh
                        ELSE added
         IN  (IF i >= windowSize - 1
              THEN << [timestamp |-> records[i + 1].timestamp,
                       avg       |-> << trimmed, windowSize >>] >>
              ELSE <<>>)
             \o RollingFrom(records, windowSize, i + 1, trimmed)

computeRollingAverage(records, windowSize) ==
    IF Len(records) = 0 \/ windowSize <= 1 THEN <<>>
    ELSE RollingFrom(records, windowSize, 0, 0)

(***************************************************************************)
(* The persisted record store (IndexedDB, keyPath timestampKey)            *)
(***************************************************************************)
\* store.put: replace the object of the same key, or add one; the store is
\* kept in key order, the order getAll answers in.
StorePut(store, record) ==
    IF \E i \in 1..Len(store) : store[i].timestamp = record.timestamp
    THEN [i \in 1..Len(store) |->
            IF store[i].timestamp = record.timestamp THEN record ELSE store[i]]
    ELSE SortByTimestamp(Append(store, record))

RECURSIVE saveRecords(_, _)
saveRecords(store, records) ==
    IF records = <<>> THEN store
    ELSE saveRecords(StorePut(store, Head(records)), Tail(records))

loadAllRecords(store) == SortByTimestamp(store)

clearAllRecords(store) == <<>>

(***************************************************************************)
(* Bounds and inputs                                                       *)
(***************************************************************************)
MaxFiles == 2      \* files of one load batch

MaxRows == 2       \* rows of a generated CSV file

MaxLen == 5        \* records of a series handed to computeRollingAverage

MaxValue == 5      \* importKWh of those records is 1..MaxValue

MaxWindow == 4     \* windowSize is 0..MaxWindow

MaxPicked == 3     \* records of a series handed to filterByRange

Granularities == {"15min", "hourly", "daily"}

Row(date, startTime, importText) ==
    [date |-> date, startTime |-> startTime, importText |-> importText]

File(name, header, rows) == [name |-> name, header |-> header, rows |-> rows]

\* Three directories of exports, one around each kind of day: the day
\* daylight saving begins, the day it ends, and days without a transition.
\* Each holds overlapping files named in chronological order, and the last
\* a file without the header line.
SpringFiles ==
    << File("usage_1.csv", TRUE,
            << Row(<<2024, 3, 10>>, <<1, 45>>, <<1>>),
               Row(<<2024, 3, 10>>, <<3, 0>>, <<2>>),
               Row(NoValue, NoValue, <<>>) >>),
       File("usage_2.csv", TRUE,
            << Row(<<2024, 3, 10>>, <<3, 0>>, <<4>>),
               Row(<<2024, 3, 10>>, <<9, 15>>, <<8>>),
               Row(<<2024, 3, 10>>, <<10, 0>>, <<16>>),
               Row(<<2024, 3, 11>>, <<0, 0>>, <<32>>) >>) >>

FallFiles ==
    << File("usage_1.csv", TRUE,
            << Row(<<2024, 11, 3>>, <<1, 45>>, <<1>>),
               Row(<<2024, 11, 3>>, <<2, 0>>, <<2>>) >>),
       File("usage_2.csv", TRUE,
            << Row(<<2024, 11, 3>>, <<8, 45>>, <<8>>),
               Row(<<2024, 11, 3>>, <<2, 0>>, <<4>>),
               Row(<<2024, 11, 3>>, <<9, 0>>, <<16>>),
               Row(<<2024, 11, 4>>, <<0, 0>>, <<32>>) >>) >>

PlainFiles ==
    << File("usage_1.csv", TRUE,
            << Row(<<2024, 1, 2>>, <<0, 0>>, <<1>>),
               Row(<<2024, 1, 2>>, <<1, 30>>, <<2>>) >>),
       File("usage_2.csv", TRUE,
            << Row(<<2024, 1, 2>>, <<1, 30>>, <<4>>),
               Row(<<2024, 1, 2>>, <<23, 45>>, <<8>>),
               Row(<<2024, 1, 3>>, <<0, 0>>, <<16>>),
               Row(<<2024, 1, 3>>, <<0, 15>>, <<>>) >>),
       File("notes.csv", FALSE, <<>>) >>

\* The labels a generated file draws its rows from, again one set per kind
\* of day so that one series never spans the months between them.
SpringLabels ==
    { << <<2024, 3, 10>>, t >> :
        t \in { <<1, 45>>, <<3, 0>>, <<9, 45>>, <<10, 0>> } }

FallLabels ==
    { << <<2024, 11, 3>>, t >> :
        t \in { <<1, 45>>, <<2, 0>>, <<8, 45>>, <<9, 0>> } }

PlainLabels ==
    { << <<2024, 1, 2>>, t >> :
        t \in { <<0, 0>>, <<1, 30>>, <<23, 45>> } }
    \cup { << <<2024, 1, 3>>, <<0, 0>> >> }

LabelSets == { SpringLabels, FallLabels, PlainLabels }

SeqsUpTo(S, n) == UNION { [1..k -> S] : k \in 1..n }

\* A generated file: 1..MaxRows rows in any order of labels, the row at
\* position j importing 2^(j-1) kWh, so that a sum tells which rows it holds.
GeneratedFile(labels) ==
    File("usage.csv", TRUE,
         [j \in 1..Len(labels) |-> Row(labels[j][1], labels[j][2], << 2^(j - 1) >>)])

GeneratedFiles ==
    UNION { { GeneratedFile(labels) : labels \in SeqsUpTo(labelSet, MaxRows) } :
            labelSet \in LabelSets }

\* The days and times the series handed to filterByRange are drawn from: the
\* first and last quarter-hours of the days around each kind of day.
FilterDays ==
    { << <<2024, 3, 9>>, <<2024, 3, 10>>, <<2024, 3, 11>> >>,
      << <<2024, 11, 2>>, <<2024, 11, 3>>, <<2024, 11, 4>> >>,
      << <<2024, 1, 1>>, <<2024, 1, 2>>, <<2024, 1, 3>> >> }

FilterTimes == { <<0, 0>>, <<23, 0>>, <<23, 45>> }

\* The series of the records of a set of labels, as a load of them builds it.
SeriesOf(labels) ==
    LET L == CHOOSE q \in [1..Cardinality(labels) -> labels] :
                 \A a, b \in 1..Cardinality(labels) : a # b => q[a] # q[b]
    IN  parseUsageRows([j \in 1..Len(L) |-> Row(L[j][1], L[j][2], << 1 >>)],
                       "usage.csv")

\* The sets of at most MaxPicked labels of three days.
PickedLabels(days) ==
    { S \in SUBSET ({ days[d] : d \in 1..3 } \X FilterTimes) :
        Cardinality(S) <= MaxPicked }

\* The bounds a call is given: each a day of the three, or absent.
FilterBounds(days) ==
    { << days[a], days[b] >> : a, b \in 1..3 }
    \cup { << days[a], NoValue >> : a \in 1..3 }
    \cup { << NoValue, days[b] >> : b \in 1..3 }
    \cup { << NoValue, NoValue >> }

FilterCall(labels, bounds) ==
    [phase |-> "call", records |-> SeriesOf(labels),
     startStr |-> bounds[1], endStr |-> bounds[2], result |-> <<>>]

\* A series of n records a quarter of an hour apart, of the given imports.
UniformSeries(values) ==
    [i \in 1..Len(values) |->
       [timestamp |-> i * FIFTEEN_MINUTES, importKWh |-> values[i]]]

RollingCall(values, w) ==
    [phase |-> "call", records |-> UniformSeries(values),
     windowSize |-> w, averages |-> <<>>]

Catalogues ==
    { SpringFiles, FallFiles, PlainFiles } \cup { << f >> : f \in GeneratedFiles }

(***************************************************************************)
(* State                                                                   *)
(***************************************************************************)
VARIABLES
    catalogue,   \* the CSV files the user can pick from
    db,          \* the persisted records, in key order
    state,       \* the page's state object
    load,        \* the loadUsageData call in flight
    status,      \* elements.status.textContent, by kind of message
    roll,        \* a call of computeRollingAverage: arguments and result
    filt,        \* a call of filterByRange: arguments and result
    other,       \* a second loadUsageData call in flight beside load
    inputs,      \* elements.start.value and elements.end.value
    resolve      \* a call of zonedDateTimeToDate: arguments and outcome

vars == << catalogue, db, state, load, status, roll, filt, other, inputs, resolve >>

InitialState ==
    [granularity    |-> "hourly",
     startDate      |-> NoValue,
     endDate        |-> NoValue,
     byGranularity  |-> [g \in Granularities |-> <<>>],
     availableDates |-> <<>>,
     rangeIndices   |-> [start |-> 0, end |-> 0]]

IdleLoad ==
    [pc |-> "idle", files |-> <<>>, results |-> <<>>, order |-> <<>>,
     existing |-> <<>>, merged |-> <<>>]

NoCall == [phase |-> "none"]

\* The date inputs of the page as it is served: both empty.
NoInputs == [start |-> NoValue, end |-> NoValue]

\* clampDateInputs: with dates available, a null bound of the state becomes
\* the first or last date, and both inputs show the bounds of the state.
clampDateInputsState(st) ==
    IF Len(st.availableDates) = 0 THEN st
    ELSE [st EXCEPT
            !.startDate = IF @ = NoValue THEN st.availableDates[1] ELSE @,
            !.endDate = IF @ = NoValue
                        THEN st.availableDates[Len(st.availableDates)] ELSE @]

clampDateInputs(st, shown) ==
    IF Len(st.availableDates) = 0 THEN shown
    ELSE [start |-> clampDateInputsState(st).startDate,
          end   |-> clampDateInputsState(st).endDate]

\* A rebuild that adds to the 15-minute series and the dates but leaves the
\* daily buckets as they were.
WithSeriesKeepingDaily(st, filled) ==
    [st EXCEPT !.byGranularity =
                   [g \in Granularities |->
                      IF g = "daily" THEN @[g] ELSE aggregate(filled, g)],
               !.availableDates = listAvailableDates(filled)]

\* The assignments both loadUsageData and init make from the filled series.
WithSeries(st, filled) ==
    [st EXCEPT !.byGranularity =
                   [g \in Granularities |-> aggregate(filled, g)],
               !.availableDates = listAvailableDates(filled)]

\* loadUsageData after saveRecords: the store rebuilt from the merged records.
RebuildAfterLoad(st, merged) ==
    LET rebuilt == WithSeries(st, fillMissingIntervals(merged))
        dates   == rebuilt.availableDates
    IN  IF Len(dates) > 0
        THEN [rebuilt EXCEPT !.rangeIndices = [start |-> 0, end |-> Len(dates) - 1],
                             !.startDate = dates[1],
                             !.endDate = dates[Len(dates)]]
        ELSE [rebuilt EXCEPT !.rangeIndices = [start |-> 0, end |-> 0],
                             !.startDate = NoValue,
                             !.endDate = NoValue]

\* init(): the module's initial state object, rebuilt from the persisted
\* records when there are any.
RebuildAtStartup(existingRecords) ==
    IF Len(existingRecords) > 0
    THEN LET rebuilt == WithSeries(InitialState,
                                   fillMissingIntervals(existingRecords))
             dates   == rebuilt.availableDates
         IN  IF Len(dates) > 0
             THEN [rebuilt EXCEPT
                      !.rangeIndices = [start |-> 0, end |-> Len(dates) - 1],
                      !.startDate = dates[1],
                      !.endDate = dates[Len(dates)]]
             ELSE rebuilt
    ELSE InitialState

\* onClearData after clearAllRecords.
ClearedState(st) ==
    [st EXCEPT !.byGranularity = [g \in Granularities |-> <<>>],
               !.availableDates = <<>>,
               !.startDate = NoValue,
               !.endDate = NoValue,
               !.rangeIndices = [start |-> 0, end |-> 0]]

(***************************************************************************)
(* The page: startup, load and clear                                       *)
(***************************************************************************)
Init ==
    /\ catalogue \in Catalogues
    /\ db = <<>>
    /\ state = InitialState
    /\ load = IdleLoad
    /\ status = "none"
    /\ roll = NoCall
    /\ filt = NoCall
    /\ other = IdleLoad
    /\ inputs = NoInputs
    /\ resolve = NoCall

\* onFilesSelected: the user picks 1..MaxFiles files, in any order, and
\* loadUsageData starts one read per file.
SelectFiles ==
    /\ load.pc = "idle"
    /\ \E batch \in SeqsUpTo(1..Len(catalogue), MaxFiles) :
         load' = [IdleLoad EXCEPT
                    !.pc = "reading",
                    !.files = [i \in 1..Len(batch) |-> catalogue[batch[i]]],
                    !.results = [i \in 1..Len(batch) |->
                                   [done |-> FALSE, records |-> <<>>]]]
    /\ status' = "loading"
    /\ UNCHANGED << catalogue, db, state, roll, filt, other, inputs, resolve >>

AllRead(results) == \A i \in 1..Len(results) : results[i].done

\* reader.onload of file i, the text parsing: the promise of slot i resolves.
\* Promise.all keeps the slot of each file whatever the completion order.
ReadResolved ==
    /\ load.pc = "reading"
    /\ \E i \in 1..Len(load.files) :
         /\ ~load.results[i].done
         /\ ~normalizeCsvThrows(load.files[i])
         /\ LET results == [load.results EXCEPT
                              ![i] = [done |-> TRUE,
                                      records |-> parseUsageRows(load.files[i].rows,
                                                                 load.files[i].name)]]
            IN  load' = [load EXCEPT
                           !.results = results,
                           !.order = Append(@, i),
                           !.pc = IF AllRead(results) THEN "loadAll" ELSE "reading"]
    /\ UNCHANGED << catalogue, db, state, status, roll, filt, other, inputs, resolve >>

\* reader.onload of file i, normalizeCsv throwing: Promise.all rejects, the
\* await throws out of loadUsageData and onFilesSelected reports the failure.
ReadRejected ==
    /\ load.pc = "reading"
    /\ \E i \in 1..Len(load.files) :
         /\ ~load.results[i].done
         /\ normalizeCsvThrows(load.files[i])
    /\ load' = IdleLoad
    /\ status' = "load failed"
    /\ UNCHANGED << catalogue, db, state, roll, filt, other, inputs, resolve >>

\* await loadAllRecords() answers; the merge runs and saveRecords is called.
LoadExisting ==
    /\ load.pc = "loadAll"
    /\ LET existingRecords == loadAllRecords(db)
           arrays == [i \in 1..Len(load.results) |-> load.results[i].records]
       IN  load' = [load EXCEPT
                      !.pc = "saving",
                      !.existing = existingRecords,
                      !.merged = MergeRecords(existingRecords, arrays)]
    /\ UNCHANGED << catalogue, db, state, status, roll, filt, other, inputs, resolve >>

\* loadAllRecords rejects (request.onerror): the await throws out of
\* loadUsageData and onFilesSelected reports the failure.
LoadExistingFailed ==
    /\ load.pc = "loadAll"
    /\ load' = IdleLoad
    /\ status' = "load failed"
    /\ UNCHANGED << catalogue, db, state, roll, filt, other, inputs, resolve >>

\* A failing write that leaves the first record of the batch in the store.
SaveFailedAfterPartialWrite ==
    /\ load.pc = "saving"
    /\ db' = IF Len(load.merged) > 0 THEN StorePut(db, load.merged[1]) ELSE db
    /\ load' = IdleLoad
    /\ status' = "load failed"
    /\ UNCHANGED << catalogue, state, roll, filt, other, inputs, resolve >>

\* saveRecords rejects (transaction.onerror): the transaction is aborted, so
\* none of its puts is kept, and the lines after the await do not run.
SaveFailed ==
    /\ load.pc = "saving"
    /\ load' = IdleLoad
    /\ status' = "load failed"
    /\ UNCHANGED << catalogue, db, state, roll, filt, other, inputs, resolve >>

\* The saveRecords transaction completes, loadUsageData rebuilds the store and
\* onFilesSelected goes on to clampDateInputs.
SaveAndRebuild ==
    /\ load.pc = "saving"
    /\ db' = saveRecords(db, load.merged)
    /\ state' = clampDateInputsState(RebuildAfterLoad(state, load.merged))
    /\ inputs' = clampDateInputs(state', inputs)
    /\ load' = IdleLoad
    /\ status' = "summary"
    /\ UNCHANGED << catalogue, roll, filt, other, resolve >>

\* The page is loaded again: the module's state is built anew and init()
\* rebuilds it from the persisted records, then calls clampDateInputs.
Reload ==
    /\ load.pc = "idle"
    /\ state' = clampDateInputsState(RebuildAtStartup(loadAllRecords(db)))
    /\ inputs' = clampDateInputs(state', NoInputs)
    /\ status' = IF Len(db) > 0 THEN "summary" ELSE "no data loaded"
    /\ UNCHANGED << catalogue, db, load, roll, filt, other, resolve >>

\* onClearData, confirmed: the store is cleared, then the state and the date
\* inputs emptied.
ClearData ==
    /\ load.pc = "idle"
    /\ db' = clearAllRecords(db)
    /\ state' = ClearedState(state)
    /\ inputs' = NoInputs
    /\ status' = "cleared"
    /\ UNCHANGED << catalogue, load, roll, filt, other, resolve >>

Next ==
    \/ SelectFiles
    \/ ReadResolved
    \/ ReadRejected
    \/ LoadExisting
    \/ LoadExistingFailed
    \/ SaveAndRebuild
    \/ SaveFailed
    \/ Reload
    \/ ClearData

Spec == Init /\ [][Next]_vars

(***************************************************************************)
(* Two loads in flight at once                                             *)
(***************************************************************************)
\* onFilesSelected does not wait for the load before it: a second change of
\* the file input, or a drop, starts another loadUsageData whose awaits
\* interleave with those of the first. other is that second call, of one
\* file; ClearData, enabled while it is in flight, is the click on Clear.

\* The second onFilesSelected: one file picked, its read started.
OtherSelectFile ==
    /\ other.pc = "idle"
    /\ \E i \in 1..Len(catalogue) :
         other' = [IdleLoad EXCEPT
                     !.pc = "reading",
                     !.files = << catalogue[i] >>,
                     !.results = << [done |-> FALSE, records |-> <<>>] >>]
    /\ status' = "loading"
    /\ UNCHANGED << catalogue, db, state, load, roll, filt, inputs, resolve >>

\* reader.onload of the file, the text parsing.
OtherReadResolved ==
    /\ other.pc = "reading"
    /\ ~normalizeCsvThrows(other.files[1])
    /\ other' = [other EXCEPT
                   !.results = << [done |-> TRUE,
                                   records |-> parseUsageRows(other.files[1].rows,
                                                              other.files[1].name)] >>,
                   !.order = << 1 >>,
                   !.pc = "loadAll"]
    /\ UNCHANGED << catalogue, db, state, load, status, roll, filt, inputs, resolve >>

\* reader.onload of the file, normalizeCsv throwing.
OtherReadRejected ==
    /\ other.pc = "reading"
    /\ normalizeCsvThrows(other.files[1])
    /\ other' = IdleLoad
    /\ status' = "load failed"
    /\ UNCHANGED << catalogue, db, state, load, roll, filt, inputs, resolve >>

\* await loadAllRecords() answers the second call with the store as it is
\* now; the merge runs and saveRecords is called.
OtherLoadExisting ==
    /\ other.pc = "loadAll"
    /\ other' = [other EXCEPT
                   !.pc = "saving",
                   !.existing = loadAllRecords(db),
                   !.merged = MergeRecords(loadAllRecords(db),
                                           << other.results[1].records >>)]
    /\ UNCHANGED << catalogue, db, state, load, status, roll, filt, inputs, resolve >>

\* The saveRecords transaction of the second call completes: its puts are
\* added to the store as it is now, and the state is rebuilt from the merge
\* the call computed.
OtherSaveAndRebuild ==
    /\ other.pc = "saving"
    /\ db' = saveRecords(db, other.merged)
    /\ state' = clampDateInputsState(RebuildAfterLoad(state, other.merged))
    /\ inputs' = clampDateInputs(state', inputs)
    /\ other' = IdleLoad
    /\ status' = "summary"
    /\ UNCHANGED << catalogue, load, roll, filt, resolve >>

InitConcurrent == Init /\ catalogue = PlainFiles

NextConcurrent ==
    \/ SelectFiles
    \/ ReadResolved
    \/ ReadRejected
    \/ LoadExisting
    \/ SaveAndRebuild
    \/ ClearData
    \/ OtherSelectFile
    \/ OtherReadResolved
    \/ OtherReadRejected
    \/ OtherLoadExisting
    \/ OtherSaveAndRebuild

SpecConcurrent == InitConcurrent /\ [][NextConcurrent]_vars

(***************************************************************************)
(* The date inputs                                                         *)
(***************************************************************************)
\* availableDates.indexOf(date): 0-based, -1 when absent.
IndexOf(dates, date) ==
    IF \E i \in 1..Len(dates) : dates[i] = date
    THEN (CHOOSE i \in 1..Len(dates) :
              dates[i] = date /\ \A j \in 1..(i - 1) : dates[j] # date) - 1
    ELSE -1

\* Math.max(lo, Math.min(i, hi)).
Clamp(i, lo, hi) ==
    IF (IF i < hi THEN i ELSE hi) > lo THEN (IF i < hi THEN i ELSE hi) ELSE lo

SliderIndices(dates, startIndex, endIndex) ==
    [start |-> Clamp(startIndex, 0, Len(dates) - 1),
     end   |-> Clamp(endIndex, Clamp(startIndex, 0, Len(dates) - 1),
                     Len(dates) - 1)]

\* syncSliderToState: the slider indices follow the bounds of the state; the
\* bounds themselves are left alone.
syncSliderToState(st) ==
    IF Len(st.availableDates) = 0 THEN st
    ELSE LET dates == st.availableDates
             startIndex == IF st.startDate # NoValue
                           THEN IndexOf(dates, st.startDate) ELSE 0
             endIndex   == IF st.endDate # NoValue
                           THEN IndexOf(dates, st.endDate) ELSE Len(dates) - 1
         IN  [st EXCEPT !.rangeIndices =
                 SliderIndices(dates,
                               IF startIndex = -1 THEN 0 ELSE startIndex,
                               IF endIndex = -1 THEN Len(dates) - 1 ELSE endIndex)]

\* startValue > endValue, both being set: the strings compare as the dates.
StartAfterEnd(shown) ==
    /\ shown.start # NoValue
    /\ shown.end # NoValue
    /\ \/ shown.start[1] > shown.end[1]
       \/ shown.start[1] = shown.end[1] /\ shown.start[2] > shown.end[2]
       \/ /\ shown.start[1] = shown.end[1] /\ shown.start[2] = shown.end[2]
          /\ shown.start[3] > shown.end[3]

\* onRangeChange, the inputs: shown is what they hold as the event fires,
\* target the input that changed ("this").
onRangeChangeInputs(shown, target) ==
    IF StartAfterEnd(shown)
    THEN IF target = "start" THEN [shown EXCEPT !.end = shown.start]
         ELSE [shown EXCEPT !.start = shown.end]
    ELSE shown

\* onRangeChange, the bounds of the state.
onRangeChangeState(st, shown, target) ==
    IF StartAfterEnd(shown)
    THEN IF target = "start" THEN [st EXCEPT !.endDate = shown.start]
         ELSE [st EXCEPT !.startDate = shown.end]
    ELSE [st EXCEPT !.startDate = shown.start, !.endDate = shown.end]

\* updateStatus at the end of updateChart.
ChartStatus(st) ==
    IF Len(filterByRange(st.byGranularity[st.granularity],
                         st.startDate, st.endDate)) = 0
    THEN "no data in range" ELSE "summary"

\* The values an input is changed to: empty, or a day of the three days
\* around the data of the catalogue.
TypedValues ==
    LET days == CHOOSE ds \in FilterDays :
                    \E d \in 1..3 : ds[d] = catalogue[1].rows[1].date
    IN  { NoValue } \cup { days[d] : d \in 1..3 }

\* A change event of the start or end date input: the user has given the
\* input a value it did not hold, and onRangeChange runs.
RangeChange ==
    /\ \E target \in { "start", "end" } :
         \E value \in TypedValues :
            /\ value # inputs[target]
            /\ LET shown == [inputs EXCEPT ![target] = value]
               IN  /\ inputs' = onRangeChangeInputs(shown, target)
                   /\ state' = syncSliderToState(
                                   onRangeChangeState(state, shown, target))
    /\ status' = ChartStatus(state')
    /\ UNCHANGED << catalogue, db, load, roll, filt, other, resolve >>

\* The records of the well-formed files of a catalogue, merged.
CatalogueRecords(files) ==
    LET wellFormed == SelectSeq(files, LAMBDA f : ~normalizeCsvThrows(f))
    IN  MergeRecords(<<>>, [i \in 1..Len(wellFormed) |->
                              parseUsageRows(wellFormed[i].rows,
                                             wellFormed[i].name)])

\* The page as served, or after its catalogue has been loaded.
InitRange ==
    /\ catalogue \in { SpringFiles, FallFiles, PlainFiles }
    /\ \/ /\ db = <<>>
          /\ state = InitialState
          /\ inputs = NoInputs
          /\ status = "no data loaded"
       \/ /\ db = saveRecords(<<>>, CatalogueRecords(catalogue))
          /\ state = clampDateInputsState(
                         RebuildAfterLoad(InitialState, CatalogueRecords(catalogue)))
          /\ inputs = clampDateInputs(state, NoInputs)
          /\ status = "summary"
    /\ load = IdleLoad
    /\ other = IdleLoad
    /\ roll = NoCall
    /\ filt = NoCall
    /\ resolve = NoCall

SpecRange == InitRange /\ [][RangeChange]_vars

(***************************************************************************)
(* Calls of the pure functions on drawn arguments                          *)
(***************************************************************************)
PageAtRest ==
    /\ catalogue = PlainFiles
    /\ db = <<>>
    /\ state = InitialState
    /\ load = IdleLoad
    /\ status = "none"
    /\ other = IdleLoad
    /\ inputs = NoInputs

InitRolling ==
    /\ PageAtRest
    /\ \E n \in 0..MaxLen :
         \E values \in [1..n -> 1..MaxValue], w \in 0..MaxWindow :
             roll = RollingCall(values, w)
    /\ filt = NoCall
    /\ resolve = NoCall

ComputeRollingAverage ==
    /\ roll.phase = "call"
    /\ roll' = [roll EXCEPT
                  !.phase = "returned",
                  !.averages = computeRollingAverage(roll.records, roll.windowSize)]
    /\ UNCHANGED << catalogue, db, state, load, status, filt, other, inputs, resolve >>

SpecRolling == InitRolling /\ [][ComputeRollingAverage]_vars

InitFilter ==
    /\ PageAtRest
    /\ roll = NoCall
    /\ \E days \in FilterDays :
         \E labels \in PickedLabels(days), bounds \in FilterBounds(days) :
             filt = FilterCall(labels, bounds)
    /\ resolve = NoCall

FilterByRange ==
    /\ filt.phase = "call"
    /\ filt' = [filt EXCEPT
                  !.phase = "returned",
                  !.result = filterByRange(filt.records, filt.startStr, filt.endStr)]
    /\ UNCHANGED << catalogue, db, state, load, status, roll, other, inputs, resolve >>

SpecFilter == InitFilter /\ [][FilterByRange]_vars

\* The text of one component of a date or time string, as Number reads it:
\* <<n>> for the digits of n, <<>> for a text Number answers NaN for.
IsNaN(component) == component = <<>>

\* zonedDateTimeToDate on the split components. A NaN component makes
\* Date.UTC answer NaN, base an invalid Date, and dtf.formatToParts(base) in
\* tzOffset throw a RangeError; any other components give an instant,
\* Date.UTC carrying every field past its range.
zonedDateTimeToDateOutcome(dateParts, timeParts) ==
    IF \/ \E i \in 1..3 : IsNaN(dateParts[i])
       \/ \E i \in 1..2 : IsNaN(timeParts[i])
    THEN [threw |-> TRUE, instant |-> 0]
    ELSE [threw |-> FALSE,
          instant |-> zonedDateTimeToDate(
                          << dateParts[1][1], dateParts[2][1], dateParts[3][1] >>,
                          << timeParts[1][1], timeParts[2][1] >>)]

\* The components the calls are drawn from: in range, at the edges of the
\* range, one past them, and not a number.
YearTexts == { << 2024 >> }

MonthTexts == { <<>>, << 0 >>, << 1 >>, << 3 >>, << 11 >>, << 12 >>, << 13 >> }

DayTexts == { <<>>, << 0 >>, << 1 >>, << 10 >>, << 31 >>, << 32 >> }

HourTexts == { <<>>, << 0 >>, << 2 >>, << 23 >>, << 24 >> }

MinuteTexts == { <<>>, << 0 >>, << 45 >>, << 59 >>, << 60 >> }

ResolveCall(dateParts, timeParts) ==
    [phase |-> "call", date |-> dateParts, time |-> timeParts,
     outcome |-> [threw |-> FALSE, instant |-> 0]]

InitResolve ==
    /\ PageAtRest
    /\ roll = NoCall
    /\ filt = NoCall
    /\ \E y \in YearTexts, m \in MonthTexts, d \in DayTexts,
          h \in HourTexts, mi \in MinuteTexts :
            resolve = ResolveCall(<< y, m, d >>, << h, mi >>)

ZonedDateTimeToDate ==
    /\ resolve.phase = "call"
    /\ resolve' = [resolve EXCEPT
                     !.phase = "returned",
                     !.outcome = zonedDateTimeToDateOutcome(resolve.date,
                                                            resolve.time)]
    /\ UNCHANGED << catalogue, db, state, load, status, roll, filt, other, inputs >>

SpecResolve == InitResolve /\ [][ZonedDateTimeToDate]_vars

(***************************************************************************)
(* Properties                                                              *)
(***************************************************************************)
Series(g) == state.byGranularity[g]

StrictlyAscending(records) ==
    \A i \in 1..(Len(records) - 1) : records[i].timestamp < records[i + 1].timestamp

\* The sum of field(records[i]) for i in lo..hi.
RECURSIVE SumOver(_, _, _, _)
SumOver(records, Field(_), lo, hi) ==
    IF lo > hi THEN 0
    ELSE IF lo = hi THEN Field(records[lo])
    ELSE SumOver(records, Field, lo, (lo + hi) \div 2)
         + SumOver(records, Field, (lo + hi) \div 2 + 1, hi)

ImportOf(record) == record.importKWh

SamplesOf(bucket) == bucket.sampleCount

TotalImport(records) == SumOver(records, ImportOf, 1, Len(records))

TotalSamples(buckets) == SumOver(buckets, SamplesOf, 1, Len(buckets))

Merged == load.pc = "saving"

\* The series of the batch that hold a record at timestamp t.
Holders(t) ==
    { i \in 1..Len(load.results) :
        \E k \in 1..Len(load.results[i].records) :
            load.results[i].records[k].timestamp = t }

Last(S) == CHOOSE i \in S : \A j \in S : j <= i

InSeq(r, records) == \E k \in 1..Len(records) : records[k] = r

\* C1: once the merge of a batch is computed, the record it holds at a
\* timestamp that one or more series of the batch contain is a record of the
\* last of those series in the order the files were given, in every order
\* of completion of the reads.
C1_LastInputWins ==
    Merged =>
        \A m \in 1..Len(load.merged) :
            LET holders == Holders(load.merged[m].timestamp)
            IN  holders # {} =>
                    InSeq(load.merged[m], load.results[Last(holders)].records)

\* Two series share a timestamp with different records, the later series was
\* read first, and the merge holds the later series' record.
C1_Witness ==
    /\ Merged
    /\ Len(load.results) = 2
    /\ load.order = << 2, 1 >>
    /\ \E m \in 1..Len(load.merged) :
         /\ Holders(load.merged[m].timestamp) = {1, 2}
         /\ InSeq(load.merged[m], load.results[2].records)
         /\ ~InSeq(load.merged[m], load.results[1].records)

\* C2: the merged output of a load, persisted records included, has strictly
\* ascending timestamps.
C2_MergedStrictlyAscending == Merged => StrictlyAscending(load.merged)

\* A merge of persisted records with a file that repeats one of their
\* timestamps and adds another.
C2_Witness ==
    /\ Merged
    /\ Len(load.existing) >= 2
    /\ \E i \in 1..Len(load.results) :
         /\ \E k \in 1..Len(load.results[i].records) :
              \E e \in 1..Len(load.existing) :
                  load.results[i].records[k].timestamp = load.existing[e].timestamp
         /\ \E k \in 1..Len(load.results[i].records) :
              \A e \in 1..Len(load.existing) :
                  load.results[i].records[k].timestamp # load.existing[e].timestamp
    /\ Len(load.merged) > Len(load.existing)

\* The positions of the real records of a filled series.
RealPositions(filled) == { i \in 1..Len(filled) : ~filled[i].synthetic }

\* Positions a < b of a set of positions with none of the set between them.
Consecutive(positions, a, b) ==
    a < b /\ \A c \in positions : ~(a < c /\ c < b)

IsGapFill(record, t) ==
    /\ record.timestamp = t
    /\ record.importKWh = 0
    /\ record.synthetic
    /\ record.source = "synthetic-gap-fill"

\* C3: the 15-minute series holds the persisted (real) records in order;
\* between two consecutive real records k quarter-hours apart it holds exactly
\* k-1 records, one at each quarter-hour between them, each a zero-import
\* synthetic record; and it ends with the last real record.
C3_GapFillDensity ==
    LET filled == Series("15min")
        reals  == RealPositions(filled)
    IN  /\ SelectSeq(filled, LAMBDA r : ~r.synthetic) = db
        /\ \A a, b \in reals :
             Consecutive(reals, a, b) =>
                 LET gap == filled[b].timestamp - filled[a].timestamp
                 IN  gap % FIFTEEN_MINUTES = 0 =>
                         /\ b - a - 1 = gap \div FIFTEEN_MINUTES - 1
                         /\ \A j \in 1..(b - a - 1) :
                              IsGapFill(filled[a + j],
                                        filled[a].timestamp + j * FIFTEEN_MINUTES)
        /\ Len(filled) > 0 => Len(filled) \in reals /\ 1 \in reals

\* Two real records 90 minutes apart with five synthetic records between.
C3_Witness ==
    LET filled == Series("15min")
        reals  == RealPositions(filled)
    IN  \E a \in reals :
            /\ a + 6 = Len(filled)
            /\ Consecutive(reals, a, a + 6)
            /\ filled[a + 6].timestamp - filled[a].timestamp = 90

SpringForwardDate == << 2024, 3, 10 >>

FallBackDate == << 2024, 11, 3 >>

Labelled(record, date, startTime) ==
    record.date = date /\ record.startTime = startTime

\* The pairs <<a, b>> of positions of the 15-minute series that hold
\* consecutive real records labelled date startTime1 and date startTime2.
RealPairs(date, startTime1, startTime2) ==
    LET filled == Series("15min")
        reals  == RealPositions(filled)
    IN  { pair \in reals \X reals :
            /\ Consecutive(reals, pair[1], pair[2])
            /\ Labelled(filled[pair[1]], date, startTime1)
            /\ Labelled(filled[pair[2]], date, startTime2) }

\* The records at the two positions are 15 minutes apart and adjacent.
AdjacentQuarters(pair) ==
    /\ Series("15min")[pair[2]].timestamp - Series("15min")[pair[1]].timestamp
         = FIFTEEN_MINUTES
    /\ pair[2] = pair[1] + 1

\* C4: on the day daylight saving begins, a real record labelled 01:45
\* followed by a real record labelled 03:00 are 15 minutes apart and no
\* synthetic record lies between them.
C4_SpringForwardNoFill ==
    \A pair \in RealPairs(SpringForwardDate, << 1, 45 >>, << 3, 0 >>) :
        AdjacentQuarters(pair)

C6_SumPreserved ==
    /\ TotalImport(Series("hourly")) = TotalImport(Series("15min"))
    /\ TotalImport(Series("daily")) = TotalImport(Series("15min"))
    /\ TotalSamples(Series("hourly")) = Len(Series("15min"))
    /\ TotalSamples(Series("daily")) = Len(Series("15min"))

\* Two days of data: a daily bucket of 96 records, an hourly bucket of 4, and
\* imports to add up.
C6_Witness ==
    /\ Len(Series("daily")) = 2
    /\ TotalImport(Series("15min")) > 0
    /\ \E d \in 1..Len(Series("daily")) :
         Series("daily")[d].sampleCount = 96 /\ Series("daily")[d].importKWh > 0
    /\ \E h \in 1..Len(Series("hourly")) :
         Series("hourly")[h].sampleCount = 4 /\ Series("hourly")[h].importKWh > 0

Max(a, b) == IF a >= b THEN a ELSE b

\* C7: computeRollingAverage answers nothing for an empty series or a window
\* of at most 1; otherwise max(0, n-w+1) points, the p-th carrying the
\* timestamp of element p+w-1 and the mean of the w elements ending there.
C7_RollingWindow ==
    roll.phase = "returned" =>
        LET n == Len(roll.records)
            w == roll.windowSize
        IN  IF n = 0 \/ w <= 1 THEN roll.averages = <<>>
            ELSE /\ Len(roll.averages) = Max(0, n - w + 1)
                 /\ \A q \in 1..Len(roll.averages) :
                      /\ roll.averages[q].timestamp = roll.records[q + w - 1].timestamp
                      /\ roll.averages[q].avg[2] = w
                      /\ roll.averages[q].avg[1]
                           = SumOver(roll.records, ImportOf, q, q + w - 1)

\* The series 1, 2, 3, 4, 5 with a window of 3 gives the means 2, 3, 4.
C7_Witness ==
    /\ roll.phase = "returned"
    /\ roll.records = UniformSeries(<< 1, 2, 3, 4, 5 >>)
    /\ roll.windowSize = 3
    /\ Len(roll.averages) = 3
    /\ \A q \in 1..3 : roll.averages[q].avg[1] = (q + 1) * roll.averages[q].avg[2]

\* Dates compare as their strings do.
DateLeq(d1, d2) ==
    \/ d1[1] < d2[1]
    \/ d1[1] = d2[1] /\ d1[2] < d2[2]
    \/ d1[1] = d2[1] /\ d1[2] = d2[2] /\ d1[3] <= d2[3]

InRange(record, startStr, endStr) ==
    /\ DateLeq(startStr, formatDateInZone(record.timestamp))
    /\ DateLeq(formatDateInZone(record.timestamp), endStr)

\* C8: with both bounds given and startDate <= endDate, filterByRange answers
\* exactly the records whose civil date in the zone lies in
\* [startDate, endDate].
C8_RangeInclusive ==
    (/\ filt.phase = "returned"
     /\ filt.startStr # NoValue
     /\ filt.endStr # NoValue
     /\ DateLeq(filt.startStr, filt.endStr)) =>
        filt.result = SelectSeq(filt.records,
                                LAMBDA r : InRange(r, filt.startStr, filt.endStr))

\* C9: every record of the 15-minute series carries the date and the start
\* time its timestamp formats to in the zone.
C9_LabelsMatchTimestamp ==
    \A i \in 1..Len(Series("15min")) :
        /\ Series("15min")[i].date = formatDateInZone(Series("15min")[i].timestamp)
        /\ Series("15min")[i].startTime
             = formatTimeInZone(Series("15min")[i].timestamp)

\* C10: each of the three stored series has strictly ascending timestamps.
C10_SeriesStrictlyAscending ==
    \A g \in Granularities : StrictlyAscending(Series(g))


\* C11: while a load is in flight, every step but the one that completes it
\* successfully leaves the persisted records and the state (series,
\* available dates, date bounds) as they were, and a load ends either with
\* its summary or with the failure reported.
C11_NoPartialCommit ==
    [][ (load.pc # "idle" \/ load'.pc # "idle") =>
            /\ status' # "summary" => db' = db /\ state' = state
            /\ load'.pc = "idle" => status' \in { "summary", "load failed" } ]_vars

\* A load has failed on a page that holds persisted records and series.
C11_Witness ==
    /\ status = "load failed"
    /\ load.pc = "idle"
    /\ Len(db) > 0
    /\ Len(Series("15min")) > 0
    /\ state.startDate # NoValue



\* The batch in flight holds a file with the CSV header line.
HasWellFormedFile ==
    \E i \in 1..Len(load.files) : ~normalizeCsvThrows(load.files[i])

\* C12: a file without the CSV header line does not abort the ingestion of
\* the other files of its batch: while the files are being read, a batch
\* that holds a well-formed file goes on to be read and merged.
C12_MalformedSourceIsolated ==
    [][ (load.pc = "reading" /\ HasWellFormedFile) =>
            load'.pc \in { "reading", "loadAll" } ]_vars



\* A component that is a number outside lo..hi, or not a number.
OutOfRange(component, lo, hi) ==
    IsNaN(component) \/ component[1] < lo \/ component[1] > hi

\* A date or time with a non-numeric component, or a month outside 1..12, a
\* day outside 1..31, an hour outside 0..23 or a minute outside 0..59.
Malformed(dateParts, timeParts) ==
    \/ IsNaN(dateParts[1])
    \/ OutOfRange(dateParts[2], 1, 12)
    \/ OutOfRange(dateParts[3], 1, 31)
    \/ OutOfRange(timeParts[1], 0, 23)
    \/ OutOfRange(timeParts[2], 0, 59)

\* C13: zonedDateTimeToDate fails with an error, and answers no instant,
\* whenever the date or the time is malformed.
C13_MalformedRejected ==
    (resolve.phase = "returned" /\ Malformed(resolve.date, resolve.time))
        => resolve.outcome.threw



\* The dates the records carry, each once, in ascending order.
DistinctDates(records) ==
    LET dates == { records[i].date : i \in 1..Len(records) }
    IN  [p \in 1..Cardinality(dates) |->
           CHOOSE d \in dates :
               Cardinality({ e \in dates : DateLeq(e, d) }) = p]

\* C14: in every state the hourly and daily series are the aggregates of the
\* 15-minute series and availableDates its distinct dates in order; after a
\* clear the three series and availableDates are empty and both date bounds
\* are null.
C14_RebuiltWholesale ==
    /\ Series("hourly") = aggregate(Series("15min"), "hourly")
    /\ Series("daily") = aggregate(Series("15min"), "daily")
    /\ state.availableDates = DistinctDates(Series("15min"))
    /\ status = "cleared" =>
           /\ \A g \in Granularities : Series(g) = <<>>
           /\ state.availableDates = <<>>
           /\ state.startDate = NoValue
           /\ state.endDate = NoValue

\* A second load has added a day to the series of a first one.
C14_Witness ==
    /\ status = "summary"
    /\ load.pc = "idle"
    /\ Len(state.availableDates) = 2
    /\ Len(Series("daily")) = 2
    /\ Len(Series("hourly")) > 24
    /\ \E i \in 1..Len(db) : \E j \in 1..Len(db) : db[i].source # db[j].source



\* No load is in flight.
Quiescent == load.pc = "idle" /\ other.pc = "idle"

\* C15: whatever the interleaving of the loads and the clear, once no load
\* is in flight the real records of the 15-minute series are exactly the
\* records of the persisted store.
C15_SeriesMatchesStore ==
    Quiescent =>
        SelectSeq(Series("15min"), LAMBDA r : ~r.synthetic) = db



\* C16: the bounds of the state are the values the date inputs show, null
\* for an empty input, and the start bound is not after the end bound when
\* both are set.
C16_BoundsMatchInputs ==
    /\ state.startDate = inputs.start
    /\ state.endDate = inputs.end
    /\ (state.startDate # NoValue /\ state.endDate # NoValue)
           => DateLeq(state.startDate, state.endDate)


=============================================================================
